---- MODULE Spec2Model ----
(***************************************************************************)
(* Model of the multi-terminal server (terminal_mcp_new.js): the           *)
(* TerminalSession class (initialize, executeCommand, kill), the           *)
(* TerminalManager registry (createSession, getSession, closeSession,      *)
(* closeAllSessions, cleanupInactiveSessions) and the tool handlers that   *)
(* drive them, together with the events node delivers to them: stdout and  *)
(* stderr 'data' chunks, the setTimeout callback of a call, and the        *)
(* 'exit' notification of a child process.                                 *)
(*                                                                         *)
(* Text is a sequence of tokens.  A token is a piece of text that is never *)
(* cut by the model; a chunk boundary may fall between any two tokens, so  *)
(* a marker (two tokens) can arrive whole or split.                        *)
(***************************************************************************)
EXTENDS Integers, Sequences, FiniteSets, TLC

\* Bounds of the model: the clock, the sessions ever constructed, the
\* processes ever spawned, the calls ever issued, the auto-generated ids.
MaxTime == 1
MaxObjs == 2
MaxProcs == 2
MaxCalls == 1
MaxNextId == 1
\* Bounds of the scenario of two calls on one session (SpecTwoCalls).
TwoCallsMaxObjs == 1
TwoCallsMaxProcs == 1
TwoCallsMaxCalls == 2
\* Bounds of the scenario of the registry with several shells (SpecRegistry).
RegistryMaxObjs == 2
RegistryMaxProcs == 2
RegistryMaxCalls == 2

\* Bounds of the scenario of one session that changes directory (SpecDirs).
DirsMaxObjs == 1
DirsMaxProcs == 2
DirsMaxCalls == 3
\* Bounds of the scenario of a registry that is listed (SpecListing).
ListingMaxObjs == 3
ListingMaxProcs == 1
ListingMaxCalls == 1
\* two sessions with a shell and a call each
IsolationMaxObjs == 2
IsolationMaxProcs == 2
IsolationMaxCalls == 2
\* one session given cd commands while its shell prints, hangs and exits
TrackerMaxObjs == 1
TrackerMaxProcs == 2
TrackerMaxCalls == 2
\* the single-session server
SingleMaxShells == 3
SingleMaxRuns == 2

\* Ids a caller may pass to create_terminal.  "terminal_1" collides with the
\* first auto-generated id; "s+" holds a regular-expression metacharacter.
UserIds == {"terminal_1", "s+"}
NoId == "<none>"
\* Values of the maxAge parameter of cleanupInactiveSessions, in clock ticks.
MaxAges == {0, 1}
Platforms == {"posix", "win32"}

VARIABLES
  platform,   \* os.platform()
  now,        \* Date.now()
  nextId,     \* TerminalManager.nextId
  sessions,   \* TerminalManager.sessions: the Map, in insertion order
  objs,       \* the TerminalSession objects ever constructed
  procs,      \* the child processes ever spawned
  calls,      \* the executeCommand calls ever issued (their closures)
  crashed,    \* an exception escaped an event listener: the server is gone
  limits,     \* the bounds this specification explores within
  last,       \* the latest operation that changed the state
  single      \* the single-session server: its globals, shells and requests

vars == <<platform, now, nextId, sessions, objs, procs, calls, crashed, limits, last,
          single>>

----------------------------------------------------------------------------
\* Text helpers

Whitespace == {"\n", " "}
TimedOutNotice == "\nCommand timed out"

\* String.prototype.includes on a chunk: literal substring search.
Includes(text, pat) ==
  \E i \in 1..(Len(text) - Len(pat) + 1) :
    \A k \in 1..Len(pat) : text[i + k - 1] = pat[k]

\* The texts the fragment of a regular expression written as `tok` matches.
\* Every token of a marker is plain text except the one that ends with a
\* session id holding a metacharacter: /..._s+/ matches "..._s", "..._ss",
\* and so on, and never the text "..._s+".
MarkerPrefixes == {"__COMMAND_COMPLETE_", "__COMMAND_ERROR_"}
TokenLang(tok) ==
  IF \E pre \in MarkerPrefixes : tok = pre \o "s+"
  THEN {pre \o r : pre \in {q \in MarkerPrefixes : tok = q \o "s+"}, r \in {"s", "ss"}}
  ELSE {tok}

\* new RegExp(marker, 'g'): the marker text read as a pattern.
RegExpOf(marker) == [k \in 1..Len(marker) |-> TokenLang(marker[k])]

MatchesAt(text, re, i) ==
  /\ i + Len(re) - 1 <= Len(text)
  /\ \A k \in 1..Len(re) : text[i + k - 1] \in re[k]

\* text.replace(re, ''): one left-to-right pass over non-overlapping matches.
RECURSIVE ReplaceFrom(_, _, _)
ReplaceFrom(text, re, i) ==
  IF i > Len(text) THEN <<>>
  ELSE IF Len(re) > 0 /\ MatchesAt(text, re, i)
       THEN ReplaceFrom(text, re, i + Len(re))
       ELSE <<text[i]>> \o ReplaceFrom(text, re, i + 1)

ReplaceAll(text, re) == ReplaceFrom(text, re, 1)

\* String.prototype.trim
RECURSIVE TrimLeft(_)
TrimLeft(text) ==
  IF text # <<>> /\ Head(text) \in Whitespace THEN TrimLeft(Tail(text)) ELSE text

RECURSIVE TrimRight(_)
TrimRight(text) ==
  IF text # <<>> /\ text[Len(text)] \in Whitespace
  THEN TrimRight(SubSeq(text, 1, Len(text) - 1)) ELSE text

Trim(text) == TrimRight(TrimLeft(text))

\* `__COMMAND_COMPLETE_${this.id}_${Date.now()}__`
Marker(id, t) == <<"__COMMAND_COMPLETE_" \o id, "_" \o ToString(t) \o "__">>
\* `__COMMAND_ERROR_${this.id}_${Date.now()}__`
ErrorMarker(id, t) == <<"__COMMAND_ERROR_" \o id, "_" \o ToString(t) \o "__">>

\* `terminal_${this.nextId++}`
AutoId(n) == "terminal_" \o ToString(n)

----------------------------------------------------------------------------
\* Paths and commands.  A path is text whose separators are tokens of their
\* own: "/tmp/sub" is <<"/", "tmp", "/", "sub">>.  A command line is text
\* whose blanks and quotes are tokens of their own: `cd "my dir"` is
\* <<"cd", " ", "\"", "my dir", "\"">>.

Sep == "/"
Quotes == {"\"", "'"}
\* os.homedir() and process.cwd() of the server
HomeDir == <<Sep, "home">>
ProcessCwd == <<Sep, "srv">>

\* The segments between the separators of a path (empty ones included).
RECURSIVE Split(_)
Split(path) ==
  IF path = <<>> THEN << <<>> >>
  ELSE LET rest == Split(Tail(path))
       IN IF Head(path) = Sep THEN << <<>> >> \o rest
          ELSE << <<Head(path)>> \o Head(rest) >> \o Tail(rest)

\* normalizeString of node's path module: "." and empty segments dropped,
\* ".." takes the segment before it away (kept when there is none to take
\* and the path is relative).
RECURSIVE NormalizeSegments(_, _, _)
NormalizeSegments(segs, done, allowAboveRoot) ==
  IF segs = <<>> THEN done
  ELSE LET seg == Head(segs)
       IN IF seg = <<>> \/ seg = <<".">>
          THEN NormalizeSegments(Tail(segs), done, allowAboveRoot)
          ELSE IF seg = <<"..">>
          THEN IF done # <<>> /\ done[Len(done)] # <<"..">>
               THEN NormalizeSegments(Tail(segs), SubSeq(done, 1, Len(done) - 1),
                                      allowAboveRoot)
               ELSE IF allowAboveRoot
               THEN NormalizeSegments(Tail(segs), Append(done, seg), allowAboveRoot)
               ELSE NormalizeSegments(Tail(segs), done, allowAboveRoot)
          ELSE NormalizeSegments(Tail(segs), Append(done, seg), allowAboveRoot)

RECURSIVE JoinSegments(_)
JoinSegments(segs) ==
  IF segs = <<>> THEN <<>>
  ELSE IF Len(segs) = 1 THEN Head(segs)
  ELSE Head(segs) \o <<Sep>> \o JoinSegments(Tail(segs))

\* path.isAbsolute (posix)
IsAbsolute(path) == path # <<>> /\ Head(path) = Sep

\* path.normalize (posix): a trailing separator is kept.
PathNormalize(path) ==
  IF path = <<>> THEN <<".">>
  ELSE LET abs  == IsAbsolute(path)
           body == JoinSegments(NormalizeSegments(Split(path), <<>>, ~abs))
           tail == IF body # <<>> /\ path[Len(path)] = Sep THEN <<Sep>> ELSE <<>>
       IN IF abs THEN <<Sep>> \o body \o tail
          ELSE IF body = <<>> THEN <<".">> ELSE body \o tail

\* path.join(a, b) (posix): the non-empty arguments joined, then normalized.
PathJoin(a, b) ==
  IF a = <<>> /\ b = <<>> THEN <<".">>
  ELSE IF a = <<>> THEN PathNormalize(b)
  ELSE IF b = <<>> THEN PathNormalize(a)
  ELSE PathNormalize(a \o <<Sep>> \o b)

\* path.resolve(from, to) (posix): the arguments are taken from the right
\* until one is absolute, process.cwd() standing in when none is; the result
\* is normalized and has no trailing separator.
PathResolve(from, to) ==
  LET joined == IF IsAbsolute(to) THEN to
                ELSE IF IsAbsolute(from) THEN from \o <<Sep>> \o to
                ELSE ProcessCwd \o <<Sep>> \o from \o <<Sep>> \o to
  IN <<Sep>> \o JoinSegments(NormalizeSegments(Split(joined), <<>>, FALSE))

\* path.dirname (posix)
PathDirname(path) ==
  IF path = <<>> THEN <<".">>
  ELSE LET names == {i \in 2..Len(path) : path[i] # Sep}
           k     == IF names = {} THEN 0
                    ELSE CHOOSE i \in names : \A j \in names : j <= i
           seps  == {i \in 2..(k - 1) : path[i] = Sep}
           e     == IF seps = {} THEN 0
                    ELSE CHOOSE i \in seps : \A j \in seps : j <= i
       IN IF e = 0 THEN (IF IsAbsolute(path) THEN <<Sep>> ELSE <<".">>)
          ELSE IF IsAbsolute(path) /\ e = 2 THEN <<Sep, Sep>>
          ELSE SubSeq(path, 1, e - 1)

\* command.match(/^\s*cd\s+(.*)$/): leading blanks, the word cd, at least
\* one blank, and the rest of the text when it holds no line break.  The
\* result is <<matched, captured text>>.
RECURSIVE SkipBlanks(_)
SkipBlanks(text) ==
  IF text # <<>> /\ Head(text) \in Whitespace THEN SkipBlanks(Tail(text)) ELSE text

CdMatch(command) ==
  LET body == SkipBlanks(command)
      rest == IF body = <<>> THEN <<>> ELSE Tail(body)
      arg  == SkipBlanks(rest)
  IN IF /\ body # <<>>
        /\ Head(body) = "cd"
        /\ rest # <<>>
        /\ Head(rest) \in Whitespace
        /\ \A i \in 1..Len(arg) : arg[i] # "\n"
     THEN <<TRUE, arg>>
     ELSE <<FALSE, <<>> >>

\* The matching pair of quotes around the argument, if any, taken off.
Unquote(targetDir) ==
  IF /\ targetDir # <<>>
     /\ Head(targetDir) \in Quotes
     /\ targetDir[Len(targetDir)] = Head(targetDir)
  THEN SubSeq(targetDir, 2, Len(targetDir) - 1)
  ELSE targetDir

\* TerminalSession.updateWorkingDirectory: the tracked directory after the
\* command, given the tracked directory before it.
UpdateWorkingDirectory(workingDirectory, command) ==
  LET cdMatch   == CdMatch(command)
      targetDir == Unquote(Trim(cdMatch[2]))
  IN IF ~cdMatch[1] THEN workingDirectory
     ELSE IF IsAbsolute(targetDir) THEN targetDir
     ELSE IF targetDir = <<"..">> THEN PathDirname(workingDirectory)
     ELSE IF targetDir = <<"~">> THEN HomeDir
     ELSE IF Len(targetDir) >= 2 /\ SubSeq(targetDir, 1, 2) = <<"~", Sep>>
     THEN PathJoin(HomeDir, SubSeq(targetDir, 3, Len(targetDir)))
     ELSE PathResolve(workingDirectory, targetDir)

----------------------------------------------------------------------------
\* The world a method runs in: H = [sessions, nextId, objs, procs, calls,
\* thrown, ret].  objs, procs and calls are sequences that only grow; an
\* object is named by its index.  process = 0 is the null handle.  thrown
\* records an exception raised by the method, ret the value it returned.

\* The options of createSession: id (NoId when absent), cwd (empty when
\* absent) and env (NoEnv when absent).
NoEnv == "<none>"
Options(optId, cwd, env) == [id |-> optId, cwd |-> cwd, env |-> env]

\* The constructor of TerminalSession.
NewSession(id, options, t, plat) ==
  [id |-> id, process |-> 0, isActive |-> FALSE, lastActivity |-> t,
   workingDirectory |-> IF options.cwd # <<>> THEN options.cwd ELSE ProcessCwd,
   environment |-> IF options.env = NoEnv THEN <<"process.env">>
                   ELSE <<"process.env", options.env>>,
   shell |-> IF plat = "win32" THEN "cmd.exe" ELSE "/bin/bash"]

\* The status of a child: "live"; "dying" (terminated, its 'exit' event not
\* yet emitted); "gone" (the 'exit' event has been emitted).
NewProc(o, cwd, env) ==
  [owner |-> o, killed |-> FALSE, status |-> "live", cwd |-> cwd, env |-> env,
   out |-> <<>>, err |-> <<>>, outL |-> {}, errL |-> {}]

\* ChildProcess.kill(): the signal is sent while node still holds the handle,
\* and `killed` is set when it was sent.
ProcKill(proc) ==
  IF proc.status = "gone" THEN proc
  ELSE [proc EXCEPT !.killed = TRUE, !.status = "dying"]

\* A kill that drops the handle and leaves the session marked active.
KillLeavesActive(H, o) ==
  LET p == H.objs[o].process
      H1 == IF p # 0 /\ ~H.procs[p].killed
            THEN [H EXCEPT !.procs[p] = ProcKill(@)]
            ELSE H
  IN [H1 EXCEPT !.objs[o].process = 0]

\* TerminalSession.kill
Kill(H, o) ==
  LET p == H.objs[o].process
      H1 == IF p # 0 /\ ~H.procs[p].killed
            THEN [H EXCEPT !.procs[p] = ProcKill(@)]
            ELSE H
  IN [H1 EXCEPT !.objs[o].isActive = FALSE, !.objs[o].process = 0]

\* An initialize that starts the new shell, and the tracker, in the server's
\* own directory.
InitializeInProcessCwd(H, o, t) ==
  LET H1 == IF H.objs[o].process # 0 THEN Kill(H, o) ELSE H
      H2 == [H1 EXCEPT !.procs = Append(@, NewProc(o, ProcessCwd,
                                                   H.objs[o].environment))]
  IN [H2 EXCEPT !.objs[o].process = Len(H2.procs),
                !.objs[o].isActive = TRUE,
                !.objs[o].lastActivity = t,
                !.objs[o].workingDirectory = ProcessCwd]

\* TerminalSession.initialize
Initialize(H, o, t) ==
  LET H1 == IF H.objs[o].process # 0 THEN Kill(H, o) ELSE H
      H2 == [H1 EXCEPT !.procs = Append(@, NewProc(o, H.objs[o].workingDirectory,
                                                   H.objs[o].environment))]
  IN [H2 EXCEPT !.objs[o].process = Len(H2.procs),
                !.objs[o].isActive = TRUE,
                !.objs[o].lastActivity = t]

\* A guard that looks at the handle only and not at the isActive flag.
NeedsInitializeHandleOnly(H, o) ==
  \/ H.objs[o].process = 0
  \/ H.procs[H.objs[o].process].killed

\* The guard of executeCommand: must the shell be (re)spawned first?
NeedsInitialize(H, o) ==
  \/ ~H.objs[o].isActive
  \/ H.objs[o].process = 0
  \/ H.procs[H.objs[o].process].killed

\* What the shell prints for the line written to its stdin.  On posix the
\* line is `cmd; echo "marker"`: the command prints "x" and "e" and the marker
\* follows whatever its exit status, or the command never returns.  On win32
\* the line is `cmd && echo marker || echo errorMarker`: both echoes go to
\* stdout.  echo ends its line with a newline.
ShellReplies(plat, marker, errorMarker) ==
  { [out |-> <<"x">> \o marker \o <<"\n">>, err |-> <<"e">>],
    [out |-> <<"x">>, err |-> <<>>] }
  \cup (IF plat = "win32"
        THEN {[out |-> <<"x">> \o errorMarker \o <<"\n">>, err |-> <<"e">>]}
        ELSE {})

\* The closure of one executeCommand call.  outcomes lists the values handed
\* to resolve; seen counts the chunks in which onData found the marker.
NewCall(o, id, t) ==
  [sess |-> o, marker |-> Marker(id, t), errorMarker |-> ErrorMarker(id, t),
   stdout |-> <<>>, stderr |-> <<>>, completed |-> FALSE, timer |-> "armed",
   outcomes |-> <<>>, seen |-> 0]

\* TerminalSession.executeCommand up to the return of the promise.  reply is
\* the shell's answer to the written line (nothing when the child is dead).
ExecuteCommand(H, o, t, command, reply) ==
  LET H1 == IF NeedsInitialize(H, o) THEN Initialize(H, o, t) ELSE H
      H2 == [H1 EXCEPT !.objs[o].lastActivity = t]
      p  == H2.objs[o].process
      H3 == [H2 EXCEPT !.calls = Append(@, NewCall(o, H2.objs[o].id, t))]
      c  == Len(H3.calls)
      H4 == [H3 EXCEPT !.procs[p].outL = @ \cup {c}, !.procs[p].errL = @ \cup {c}]
      H5 == IF H4.procs[p].status = "live"
            THEN [H4 EXCEPT !.procs[p].out = @ \o reply.out,
                            !.procs[p].err = @ \o reply.err]
            ELSE H4
  IN [H5 EXCEPT !.objs[o].workingDirectory = UpdateWorkingDirectory(@, command)]

\* The test of onData: is the marker in the chunk just received?
MarkerSeen(output, accumulated, marker) == Includes(output, marker)

\* The value the marker path hands to resolve.  raw and rawErr keep the
\* buffers as they were before the cleaning.
SuccessOutcome(stdout, stderr, marker, errorMarker) ==
  [success |-> TRUE,
   stdout |-> Trim(ReplaceAll(stdout, RegExpOf(marker))),
   stderr |-> Trim(ReplaceAll(stderr, RegExpOf(errorMarker))),
   exitCode |-> 0, error |-> "", raw |-> stdout, rawErr |-> stderr]

\* The value the timer callback hands to resolve.
TimeoutOutcome(stdout, stderr) ==
  [success |-> FALSE, stdout |-> stdout,
   stderr |-> stderr \o <<TimedOutNotice>>,
   exitCode |-> -1, error |-> "Command timed out",
   raw |-> stdout, rawErr |-> stderr]

MayResolveUnguarded(call) == TRUE

\* The `if (!completed)` guard of the marker path and of the timer callback.
MayResolve(call) == ~call.completed

\* An onData that keeps only the chunk that carries the marker.
OnDataKeepingMarkedOnly(H, c, chunk) ==
  LET call == H.calls[c]
      res  == SuccessOutcome(chunk, call.stderr, call.marker, call.errorMarker)
  IN IF ~MarkerSeen(chunk, chunk, call.marker) \/ ~MayResolve(call) THEN H
     ELSE [H EXCEPT !.calls[c].stdout = res.stdout,
                    !.calls[c].stderr = res.stderr,
                    !.calls[c].seen = @ + 1,
                    !.calls[c].completed = TRUE,
                    !.calls[c].timer = "cleared",
                    !.calls[c].outcomes = Append(@, res)]

\* onData of call c, run for one chunk of stdout.
OnData(H, c, chunk) ==
  LET call == H.calls[c]
      acc  == call.stdout \o chunk
      cur  == H.objs[call.sess].process
      res  == SuccessOutcome(acc, call.stderr, call.marker, call.errorMarker)
  IN IF ~MarkerSeen(chunk, acc, call.marker)
     THEN [H EXCEPT !.calls[c].stdout = acc]
     ELSE IF ~MayResolve(call)
     THEN [H EXCEPT !.calls[c].stdout = acc, !.calls[c].seen = @ + 1]
     ELSE IF cur = 0
     THEN \* this.process is null: reading .stdout throws a TypeError
          [H EXCEPT !.calls[c].stdout = acc,
                    !.calls[c].seen = @ + 1,
                    !.calls[c].completed = TRUE,
                    !.calls[c].timer = "cleared",
                    !.thrown = TRUE]
     ELSE [H EXCEPT !.calls[c].stdout = res.stdout,
                    !.calls[c].stderr = res.stderr,
                    !.calls[c].seen = @ + 1,
                    !.calls[c].completed = TRUE,
                    !.calls[c].timer = "cleared",
                    !.calls[c].outcomes = Append(@, res),
                    !.procs[cur].outL = @ \ {c},
                    !.procs[cur].errL = @ \ {c}]

\* onErrorData of call c
OnErrorData(H, c, chunk) == [H EXCEPT !.calls[c].stderr = @ \o chunk]

\* A timer callback that also kills the shell of the call's session.
OnTimeoutKilling(H, c) ==
  LET call == H.calls[c]
      H1 == Kill(H, call.sess)
  IN IF MayResolve(call)
     THEN [H1 EXCEPT !.calls[c].completed = TRUE,
                     !.calls[c].timer = "fired",
                     !.calls[c].outcomes =
                        Append(@, TimeoutOutcome(call.stdout, call.stderr))]
     ELSE [H1 EXCEPT !.calls[c].timer = "fired"]

\* The callback handed to setTimeout by call c.
OnTimeout(H, c) ==
  LET call == H.calls[c]
  IN IF MayResolve(call)
     THEN [H EXCEPT !.calls[c].completed = TRUE,
                    !.calls[c].timer = "fired",
                    !.calls[c].outcomes =
                       Append(@, TimeoutOutcome(call.stdout, call.stderr))]
     ELSE [H EXCEPT !.calls[c].timer = "fired"]

\* EventEmitter.emit('data', chunk): the listeners run in the order they were
\* attached (calls attach in the order they are issued); an exception thrown
\* by one of them leaves the rest unrun.
RECURSIVE EmitOut(_, _, _)
EmitOut(H, ls, chunk) ==
  IF ls = {} \/ H.thrown THEN H
  ELSE LET c == CHOOSE x \in ls : \A y \in ls : x <= y
       IN EmitOut(OnData(H, c, chunk), ls \ {c}, chunk)

RECURSIVE EmitErr(_, _, _)
EmitErr(H, ls, chunk) ==
  IF ls = {} THEN H
  ELSE LET c == CHOOSE x \in ls : \A y \in ls : x <= y
       IN EmitErr(OnErrorData(H, c, chunk), ls \ {c}, chunk)

----------------------------------------------------------------------------
\* TerminalManager

Keys(reg) == {reg[i].id : i \in 1..Len(reg)}
Has(reg, id) == id \in Keys(reg)
\* Map.get: the session object stored under id
Get(reg, id) == (CHOOSE i \in 1..Len(reg) : reg[i].id = id)
ObjOf(reg, id) == reg[Get(reg, id)].obj
Objs(reg) == {reg[i].obj : i \in 1..Len(reg)}

\* Map.delete keeps the insertion order of the other entries.
RECURSIVE Without(_, _)
Without(reg, ids) ==
  IF reg = <<>> THEN <<>>
  ELSE IF Head(reg).id \in ids THEN Without(Tail(reg), ids)
       ELSE <<Head(reg)>> \o Without(Tail(reg), ids)

\* TerminalManager.createSession
CreateSession(H, options, t) ==
  LET auto == options.id = NoId
      id   == IF auto THEN AutoId(H.nextId) ELSE options.id
      H1   == IF auto THEN [H EXCEPT !.nextId = @ + 1] ELSE H
  IN IF Has(H1.sessions, id)
     THEN [H1 EXCEPT !.thrown = TRUE, !.ret = id]
     ELSE [H1 EXCEPT !.objs = Append(@, NewSession(id, options, t, H.platform)),
                     !.sessions = Append(@, [id |-> id, obj |-> Len(H1.objs) + 1]),
                     !.ret = id]

\* TerminalManager.getSession
GetSession(H, id) ==
  IF Has(H.sessions, id) THEN [H EXCEPT !.ret = "ok"]
  ELSE [H EXCEPT !.thrown = TRUE, !.ret = "not found"]

RECURSIVE KillEach(_, _)
KillEach(H, os) ==
  IF os = {} THEN H
  ELSE LET o == CHOOSE x \in os : TRUE
       IN KillEach(Kill(H, o), os \ {o})

\* A closeSession that forgets the session without killing its shell.
CloseSessionNoKill(H, id) ==
  IF Has(H.sessions, id)
  THEN [H EXCEPT !.sessions = Without(@, {id}), !.ret = "true"]
  ELSE [H EXCEPT !.ret = "false"]

\* TerminalManager.closeSession
CloseSession(H, id) ==
  IF Has(H.sessions, id)
  THEN [Kill(H, ObjOf(H.sessions, id)) EXCEPT
          !.sessions = Without(@, {id}), !.ret = "true"]
  ELSE [H EXCEPT !.ret = "false"]

\* A closeAllSessions that kills the shell of the oldest entry only.
CloseAllSessionsFirstOnly(H) ==
  [KillEach(H, {H.sessions[i].obj : i \in 1..Len(H.sessions) \cap {1}})
     EXCEPT !.sessions = <<>>]

\* TerminalSession.getStatus; the pid is the number of the process.
GetStatus(H, o) ==
  [id |-> H.objs[o].id,
   isActive |-> H.objs[o].isActive,
   workingDirectory |-> H.objs[o].workingDirectory,
   shell |-> H.objs[o].shell,
   lastActivity |-> H.objs[o].lastActivity,
   pid |-> H.objs[o].process]

\* A listing that runs through the Map from its newest entry.
ListSessionsNewestFirst(H) ==
  [i \in 1..Len(H.sessions) |->
     GetStatus(H, H.sessions[Len(H.sessions) + 1 - i].obj)]

\* TerminalManager.listSessions: Array.from(sessions.values()).map(getStatus)
ListSessions(H) ==
  [i \in 1..Len(H.sessions) |-> GetStatus(H, H.sessions[i].obj)]

\* TerminalManager.closeAllSessions
CloseAllSessions(H) ==
  [KillEach(H, Objs(H.sessions)) EXCEPT !.sessions = <<>>]

\* A sweep test that evicts at maxAge already.
ShouldEvictAtMaxAge(session, t, maxAge) ==
  ~session.isActive \/ (t - session.lastActivity) >= maxAge

\* A sweep test that looks at the age only.
ShouldEvictByAge(session, t, maxAge) ==
  (t - session.lastActivity) > maxAge

\* The test of the sweep on one session.
ShouldEvict(session, t, maxAge) ==
  ~session.isActive \/ (t - session.lastActivity) > maxAge

\* TerminalManager.cleanupInactiveSessions
CleanupInactiveSessions(H, maxAge, t) ==
  LET toRemove == {i \in 1..Len(H.sessions) :
                     ShouldEvict(H.objs[H.sessions[i].obj], t, maxAge)}
  IN [KillEach(H, {H.sessions[i].obj : i \in toRemove}) EXCEPT
        !.sessions = Without(@, {H.sessions[i].id : i \in toRemove})]

----------------------------------------------------------------------------
\* The single-session server: one module-level shell, no registry
\*
\* single.shells are the child processes ever spawned (records of NewProc),
\* single.runs the execute_command requests ever received, single.response
\* the answer to the latest request that was answered at once, and
\* single.basicResponse the same for the basic server, whose handler has no
\* try around its dispatch.  The text a
\* shell prints is a sequence of chunks, each named by the time in its
\* completion marker `__COMMAND_COMPLETE_${Date.now()}__`.

ProcessEnv == <<"process.env">>
Flags == {"true", "false", "omitted"}
ToolNames == {"execute_command", "reset_shell", "list_terminals"}
SingleCommands == {<<"ls">>, <<"cd", " ", "sub">>}

\* initializeShell
InitializeShell(S) ==
  LET S1 == IF S.shellProcess # 0
            THEN [S EXCEPT !.shells[S.shellProcess] = ProcKill(@)]
            ELSE S
      S2 == [S1 EXCEPT !.shells = Append(@, NewProc(0, S.currentWorkingDirectory,
                                                    S.shellEnvironment))]
  IN [S2 EXCEPT !.shellProcess = Len(S2.shells)]

\* The globals as declared, and main()'s initializeShell().
SingleStart ==
  InitializeShell([shellProcess |-> 0,
                   currentWorkingDirectory |-> ProcessCwd,
                   shellEnvironment |-> ProcessEnv,
                   shells |-> <<>>, runs |-> <<>>, response |-> "none",
                   basicResponse |-> "none"])

\* The guard of executeCommandInShell.
NeedsShell(S) ==
  S.shellProcess = 0 \/ S.shells[S.shellProcess].killed

\* One execute_command request: the value of use_persistent_shell, the way
\* the command was run ("shell" or "exec"), the time in its marker, the
\* directory handed to exec, and the result it resolved with.
NewRun(flag, command, via, t, cwd) ==
  [flag |-> flag, command |-> command, via |-> via, marker |-> t, cwd |-> cwd,
   completed |-> FALSE, timer |-> IF via = "shell" THEN "armed" ELSE "none",
   result |-> "none"]

\* executeCommandInShell up to the return of the promise.  reply is what the
\* shell prints for the written line: the chunk with the marker, or nothing.
ExecuteCommandInShell(S, flag, command, t, reply) ==
  LET S1 == IF NeedsShell(S) THEN InitializeShell(S) ELSE S
      p  == S1.shellProcess
      S2 == [S1 EXCEPT !.runs = Append(@, NewRun(flag, command, "shell", t, <<>>))]
      r  == Len(S2.runs)
      S3 == [S2 EXCEPT !.shells[p].outL = @ \cup {r}]
  IN IF S3.shells[p].status = "live"
     THEN [S3 EXCEPT !.shells[p].out = @ \o reply]
     ELSE S3

\* The else branch of the execute_command case: updateWorkingDirectory and a
\* one-shot exec in the tracked directory.
ExecuteOneShot(S, flag, command, t) ==
  LET cwd == UpdateWorkingDirectory(S.currentWorkingDirectory, command)
  IN [S EXCEPT !.currentWorkingDirectory = cwd,
               !.runs = Append(@, NewRun(flag, command, "exec", t, cwd))]

\* The execute_command case up to its await.
SingleExecuteCommand(S, flag, command, t, reply) ==
  IF flag # "true"
  THEN ExecuteCommandInShell(S, flag, command, t, reply)
  ELSE ExecuteOneShot(S, flag, command, t)

\* The reset_shell case.
ResetShell(S) ==
  LET S1 == IF S.shellProcess # 0
            THEN [S EXCEPT !.shells[S.shellProcess] = ProcKill(@),
                           !.shellProcess = 0]
            ELSE S
  IN [S1 EXCEPT !.currentWorkingDirectory = ProcessCwd,
                !.shellEnvironment = ProcessEnv,
                !.response = "ok"]

\* The default case: the exception is thrown inside the try and the catch
\* answers with isError: true.
SingleUnknownTool(S) == [S EXCEPT !.response = "isError"]

\* The handler of the basic server for a name other than execute_command:
\* the exception is thrown outside any try, so the request is rejected.
BasicUnknownTool(S) == [S EXCEPT !.basicResponse = "rejected"]

\* The 'exit' and 'error' listeners of initializeShell.
OnShellExit(S) == [S EXCEPT !.shellProcess = 0]

\* onData of run r for one chunk of stdout.
OnShellData(S, r, chunk) ==
  LET run == S.runs[r]
  IN IF chunk # run.marker \/ run.completed THEN S
     ELSE IF S.shellProcess = 0
     THEN \* shellProcess is null: reading .stdout throws a TypeError
          [S EXCEPT !.runs[r].completed = TRUE,
                    !.runs[r].timer = "cleared",
                    !.thrown = TRUE]
     ELSE [S EXCEPT !.runs[r].completed = TRUE,
                    !.runs[r].timer = "cleared",
                    !.runs[r].result = "success",
                    !.shells[S.shellProcess].outL = @ \ {r}]

\* The callback handed to setTimeout by run r.
OnShellTimeout(S, r) ==
  IF S.runs[r].completed
  THEN [S EXCEPT !.runs[r].timer = "fired"]
  ELSE [S EXCEPT !.runs[r].completed = TRUE,
                 !.runs[r].timer = "fired",
                 !.runs[r].result = "failure"]

\* The callback of exec.
OnExecDone(S, r, ok) ==
  [S EXCEPT !.runs[r].completed = TRUE,
            !.runs[r].result = IF ok THEN "success" ELSE "failure"]

\* emit('data', chunk) on the stdout of a shell: listeners in attach order.
RECURSIVE EmitShellData(_, _, _)
EmitShellData(S, ls, chunk) ==
  IF ls = {} \/ S.thrown THEN S
  ELSE LET r == CHOOSE x \in ls : \A y \in ls : x <= y
       IN EmitShellData(OnShellData(S, r, chunk), ls \ {r}, chunk)

\* The process 'exit' handler of the single-session server.
SingleOnProcessExit(S) ==
  IF S.shellProcess # 0
  THEN [S EXCEPT !.shells[S.shellProcess] = ProcKill(@)]
  ELSE S

\* The answer of the handler to request r, from `isError: !result.success`.
RunResponse(run) ==
  IF run.result = "none" THEN "pending"
  ELSE IF run.result = "success" THEN "ok" ELSE "isError"

----------------------------------------------------------------------------
\* The state machine

AllIds == UserIds \cup {AutoId(n) : n \in 1..MaxNextId}

World ==
  [sessions |-> sessions, nextId |-> nextId, objs |-> objs, procs |-> procs,
   calls |-> calls, platform |-> platform, thrown |-> FALSE, ret |-> "none"]

Commit(H) ==
  /\ sessions' = H.sessions
  /\ nextId' = H.nextId
  /\ objs' = H.objs
  /\ procs' = H.procs
  /\ calls' = H.calls

\* last names the latest step that changed the program's state.
Did(op, arg) ==
  last' = IF <<sessions', nextId', objs', procs', calls'>>
              = <<sessions, nextId, objs, procs, calls>>
          THEN last
          ELSE [op |-> op, arg |-> arg]

Event == last' = [op |-> "event", arg |-> ""]

\* Room left, within the bounds, for one more executeCommand on object o.
RoomToExecute(H, o) ==
  /\ Len(H.calls) < limits.calls
  /\ NeedsInitialize(H, o) => Len(H.procs) < limits.procs

Start ==
  /\ now = 0
  /\ nextId = 1
  /\ sessions = <<>>
  /\ objs = <<>>
  /\ procs = <<>>
  /\ calls = <<>>
  /\ crashed = FALSE
  /\ last = [op |-> "event", arg |-> ""]
  /\ single = SingleStart

\* The inputs every specification draws from unless it says otherwise: one
\* command that is no cd, and no cwd or env option.
PlainCommands == {<<"ls">>}
PlainInputs == [commands |-> PlainCommands, cwds |-> {<<>>}, envs |-> {NoEnv}]

Init ==
  /\ Start
  /\ platform \in Platforms
  /\ limits = [objs |-> MaxObjs, procs |-> MaxProcs, calls |-> MaxCalls,
               inputs |-> PlainInputs]

\* Date.now() advances.
Tick ==
  /\ ~crashed
  /\ now < MaxTime
  /\ now' = now + 1
  /\ Event
  /\ UNCHANGED <<platform, nextId, sessions, objs, procs, calls, crashed, limits, single>>

\* terminalManager.createSession(options), as the create_terminal handler
\* calls it; the handler's catch turns the exception into an error response.
\* The handler goes on to session.initialize() and executeCommand('pwd'),
\* which CallExecuteCommand models (the first command of a session spawns
\* its shell); the session stays as constructed when spawn throws.
CallCreateSession(optId) ==
  /\ ~crashed
  /\ optId = NoId => nextId <= MaxNextId
  /\ \E cwd \in limits.inputs.cwds : \E env \in limits.inputs.envs :
       LET H1 == CreateSession(World, Options(optId, cwd, env), now)
       IN /\ ~H1.thrown => Len(objs) < limits.objs
          /\ Commit(H1)
          /\ Did("createSession", optId)
  /\ UNCHANGED <<platform, now, crashed, limits, single>>

\* terminalManager.getSession(id).executeCommand(command), as the
\* create_terminal and execute_command handlers call it.
CallExecuteCommand(id) ==
  /\ ~crashed
  /\ Has(sessions, id)
  /\ LET o == ObjOf(sessions, id)
     IN /\ RoomToExecute(World, o)
        /\ \E command \in limits.inputs.commands :
             \E reply \in ShellReplies(platform, Marker(id, now),
                                       ErrorMarker(id, now)) :
               Commit(ExecuteCommand(World, o, now, command, reply))
  /\ Event
  /\ UNCHANGED <<platform, now, crashed, limits, single>>

\* terminalManager.closeSession(id), as the close_terminal handler calls it.
CallCloseSession(id) ==
  /\ ~crashed
  /\ LET H1 == CloseSession(World, id)
     IN /\ Commit(H1)
        /\ Did("closeSession", id)
  /\ UNCHANGED <<platform, now, crashed, limits, single>>

\* terminalManager.closeAllSessions(), as the close_all_terminals handler
\* calls it.
CallCloseAllSessions ==
  /\ ~crashed
  /\ Commit(CloseAllSessions(World))
  /\ Did("closeAllSessions", "")
  /\ UNCHANGED <<platform, now, crashed, limits, single>>

\* terminalManager.cleanupInactiveSessions(maxAge): the periodic sweep.
CallCleanupInactiveSessions(maxAge) ==
  /\ ~crashed
  /\ Commit(CleanupInactiveSessions(World, maxAge, now))
  /\ Did("cleanupInactiveSessions", ToString(maxAge))
  /\ UNCHANGED <<platform, now, crashed, limits, single>>

\* The shell of process p terminates by itself.
ProcExit(p) ==
  /\ ~crashed
  /\ p \in 1..Len(procs)
  /\ procs[p].status = "live"
  /\ procs' = [procs EXCEPT ![p].status = "dying"]
  /\ Event
  /\ UNCHANGED <<platform, now, nextId, sessions, objs, calls, crashed, limits, single>>

\* The 'exit' listener that initialize registered on process p.
ExitNotify(p) ==
  /\ ~crashed
  /\ p \in 1..Len(procs)
  /\ procs[p].status = "dying"
  /\ procs' = [procs EXCEPT ![p].status = "gone"]
  /\ objs' = [objs EXCEPT ![procs[p].owner].isActive = FALSE]
  /\ Event
  /\ UNCHANGED <<platform, now, nextId, sessions, calls, crashed, limits, single>>

\* A chunk of n tokens read from the stdout pipe of process p is emitted.
\* An exception escaping a listener ends the server, whose 'exit' handler
\* closes every session.
DeliverOut(p, n) ==
  /\ ~crashed
  /\ p \in 1..Len(procs)
  /\ n \in 1..Len(procs[p].out)
  /\ LET chunk == SubSeq(procs[p].out, 1, n)
         H1 == [World EXCEPT !.procs[p].out = SubSeq(@, n + 1, Len(@))]
         H2 == EmitOut(H1, procs[p].outL, chunk)
     IN /\ Commit(IF H2.thrown THEN CloseAllSessions(H2) ELSE H2)
        /\ crashed' = H2.thrown
        /\ Event
  /\ UNCHANGED <<platform, now, limits, single>>

\* A chunk of n tokens read from the stderr pipe of process p is emitted.
DeliverErr(p, n) ==
  /\ ~crashed
  /\ p \in 1..Len(procs)
  /\ n \in 1..Len(procs[p].err)
  /\ LET chunk == SubSeq(procs[p].err, 1, n)
         H1 == [World EXCEPT !.procs[p].err = SubSeq(@, n + 1, Len(@))]
     IN Commit(EmitErr(H1, procs[p].errL, chunk))
  /\ Event
  /\ UNCHANGED <<platform, now, crashed, limits, single>>

\* The timer of call c fires.
Timeout(c) ==
  /\ ~crashed
  /\ c \in 1..Len(calls)
  /\ calls[c].timer = "armed"
  /\ Commit(OnTimeout(World, c))
  /\ Event
  /\ UNCHANGED <<platform, now, crashed, limits, single>>

Next ==
  \/ Tick
  \/ \E optId \in UserIds \cup {NoId} : CallCreateSession(optId)
  \/ \E id \in AllIds : CallExecuteCommand(id)
  \/ \E id \in AllIds : CallCloseSession(id)
  \/ CallCloseAllSessions
  \/ \E maxAge \in MaxAges : CallCleanupInactiveSessions(maxAge)
  \/ \E p \in 1..Len(procs) : ProcExit(p)
  \/ \E p \in 1..Len(procs) : ExitNotify(p)
  \/ \E p \in 1..Len(procs) : \E n \in 1..Len(procs[p].out) : DeliverOut(p, n)
  \/ \E p \in 1..Len(procs) : \E n \in 1..Len(procs[p].err) : DeliverErr(p, n)
  \/ \E c \in 1..Len(calls) : Timeout(c)

Spec == Init /\ [][Next]_vars

\* Two calls on one session of a posix server: the session is created with
\* an auto-generated id, commands are issued, the session may be closed, and
\* every timer that stays armed fires in the end.
InitTwoCalls ==
  /\ Start
  /\ platform = "posix"
  /\ limits = [objs |-> TwoCallsMaxObjs, procs |-> TwoCallsMaxProcs,
               calls |-> TwoCallsMaxCalls, inputs |-> PlainInputs]

NextTwoCalls ==
  \/ Tick
  \/ CallCreateSession(NoId)
  \/ \E id \in AllIds : CallExecuteCommand(id)
  \/ \E id \in AllIds : CallCloseSession(id)
  \/ \E p \in 1..Len(procs) : \E n \in 1..Len(procs[p].out) : DeliverOut(p, n)
  \/ \E p \in 1..Len(procs) : \E n \in 1..Len(procs[p].err) : DeliverErr(p, n)
  \/ \E c \in 1..Len(calls) : Timeout(c)

SpecTwoCalls ==
  /\ InitTwoCalls
  /\ [][NextTwoCalls]_vars
  /\ \A c \in 1..TwoCallsMaxCalls : WF_vars(Timeout(c))

\* The registry with several sessions, each on a shell of its own: sessions
\* are created, given commands (which spawns and respawns their shells),
\* closed and swept while shells exit; what the shells print stays unread.
InitRegistry ==
  /\ Start
  /\ platform \in Platforms
  /\ limits = [objs |-> RegistryMaxObjs, procs |-> RegistryMaxProcs,
               calls |-> RegistryMaxCalls, inputs |-> PlainInputs]

NextRegistry ==
  \/ Tick
  \/ \E optId \in UserIds \cup {NoId} : CallCreateSession(optId)
  \/ \E id \in AllIds : CallExecuteCommand(id)
  \/ \E id \in AllIds : CallCloseSession(id)
  \/ CallCloseAllSessions
  \/ \E maxAge \in MaxAges : CallCleanupInactiveSessions(maxAge)
  \/ \E p \in 1..Len(procs) : ProcExit(p)
  \/ \E p \in 1..Len(procs) : ExitNotify(p)

SpecRegistry == InitRegistry /\ [][NextRegistry]_vars

\* One session of a posix server that is given cd commands, with and without
\* the cwd and env options, while its shell may exit and be respawned.
DirCommands ==
  { <<"ls">>, <<"cd", " ", "sub">>, <<"cd", " ", "..">>, <<"cd", " ", "~">>,
    <<"cd", " ", Sep, "tmp", Sep>> }

InitDirs ==
  /\ Start
  /\ platform = "posix"
  /\ limits = [objs |-> DirsMaxObjs, procs |-> DirsMaxProcs, calls |-> DirsMaxCalls,
               inputs |-> [commands |-> DirCommands,
                           cwds |-> {<<>>, <<Sep>>},
                           envs |-> {NoEnv, "X=1"}]]

NextDirs ==
  \/ CallCreateSession(NoId)
  \/ \E id \in AllIds : CallExecuteCommand(id)
  \/ \E p \in 1..Len(procs) : ProcExit(p)
  \/ \E p \in 1..Len(procs) : ExitNotify(p)

SpecDirs == InitDirs /\ [][NextDirs]_vars

\* A registry whose sessions are created, closed, swept and created again
\* under the same ids, more often than it can hold at a time.
InitListing ==
  /\ Start
  /\ platform \in Platforms
  /\ limits = [objs |-> ListingMaxObjs, procs |-> ListingMaxProcs,
               calls |-> ListingMaxCalls, inputs |-> PlainInputs]

SpecListing == InitListing /\ [][NextRegistry]_vars

\* Two sessions of a posix server at one instant, each with a shell of its
\* own and a command on it: shells print, timers fire, and either session
\* may be closed (its shell's exit is then notified) while the other goes on.
InitIsolation ==
  /\ Start
  /\ platform = "posix"
  /\ limits = [objs |-> IsolationMaxObjs, procs |-> IsolationMaxProcs,
               calls |-> IsolationMaxCalls, inputs |-> PlainInputs]

NextIsolation ==
  \/ \E optId \in UserIds : CallCreateSession(optId)
  \/ \E id \in AllIds : CallExecuteCommand(id)
  \/ \E id \in AllIds : CallCloseSession(id)
  \/ \E p \in 1..Len(procs) : ExitNotify(p)
  \/ \E p \in 1..Len(procs) : \E n \in 1..Len(procs[p].out) : DeliverOut(p, n)
  \/ \E c \in 1..Len(calls) : Timeout(c)

SpecIsolation == InitIsolation /\ [][NextIsolation]_vars

\* One session of a posix server at one instant that is given cd commands
\* while everything else happens to it: its shell prints, hangs and exits,
\* timers fire, the shell is respawned.
TrackerCommands == {<<"ls">>, <<"cd", " ", "sub">>}

InitTracker ==
  /\ Start
  /\ platform = "posix"
  /\ limits = [objs |-> TrackerMaxObjs, procs |-> TrackerMaxProcs,
               calls |-> TrackerMaxCalls,
               inputs |-> [commands |-> TrackerCommands, cwds |-> {<<>>},
                           envs |-> {NoEnv}]]

NextTracker ==
  \/ CallCreateSession(NoId)
  \/ \E id \in AllIds : CallExecuteCommand(id)
  \/ \E p \in 1..Len(procs) : ProcExit(p)
  \/ \E p \in 1..Len(procs) : ExitNotify(p)
  \/ \E p \in 1..Len(procs) : \E n \in 1..Len(procs[p].out) : DeliverOut(p, n)
  \/ \E p \in 1..Len(procs) : \E n \in 1..Len(procs[p].err) : DeliverErr(p, n)
  \/ \E c \in 1..Len(calls) : Timeout(c)

SpecTracker == InitTracker /\ [][NextTracker]_vars

----------------------------------------------------------------------------
\* The single-session server

SingleWorld ==
  [shellProcess |-> single.shellProcess,
   currentWorkingDirectory |-> single.currentWorkingDirectory,
   shellEnvironment |-> single.shellEnvironment,
   shells |-> single.shells, runs |-> single.runs,
   response |-> single.response, basicResponse |-> single.basicResponse,
   thrown |-> FALSE]

SingleCommit(S) == single' = [f \in DOMAIN single |-> S[f]]

\* tools/call execute_command with use_persistent_shell = flag
RequestExecuteCommand(flag) ==
  /\ ~crashed
  /\ Len(single.runs) < limits.calls
  /\ (flag # "true" /\ NeedsShell(SingleWorld)) => Len(single.shells) < limits.procs
  /\ \E command \in limits.inputs.commands : \E reply \in {<<now>>, <<>>} :
       SingleCommit(SingleExecuteCommand(SingleWorld, flag, command, now, reply))
  /\ UNCHANGED <<platform, now, nextId, sessions, objs, procs, calls, crashed,
                 limits, last>>

\* tools/call reset_shell
RequestResetShell ==
  /\ ~crashed
  /\ SingleCommit(ResetShell(SingleWorld))
  /\ UNCHANGED <<platform, now, nextId, sessions, objs, procs, calls, crashed,
                 limits, last>>

\* tools/call with a name the single-session server does not know
RequestUnknownTool(name) ==
  /\ ~crashed
  /\ name \notin {"execute_command", "reset_shell"}
  /\ SingleCommit(SingleUnknownTool(SingleWorld))
  /\ UNCHANGED <<platform, now, nextId, sessions, objs, procs, calls, crashed,
                 limits, last>>

\* tools/call with a name the basic server does not know
BasicRequestUnknownTool(name) ==
  /\ ~crashed
  /\ name # "execute_command"
  /\ SingleCommit(BasicUnknownTool(SingleWorld))
  /\ UNCHANGED <<platform, now, nextId, sessions, objs, procs, calls, crashed,
                 limits, last>>

\* Shell p of the single-session server terminates by itself.
ShellExit(p) ==
  /\ ~crashed
  /\ p \in 1..Len(single.shells)
  /\ single.shells[p].status = "live"
  /\ single' = [single EXCEPT !.shells[p].status = "dying"]
  /\ UNCHANGED <<platform, now, nextId, sessions, objs, procs, calls, crashed,
                 limits, last>>

\* The 'exit' listener that initializeShell registered on shell p.
ShellExitNotify(p) ==
  /\ ~crashed
  /\ p \in 1..Len(single.shells)
  /\ single.shells[p].status = "dying"
  /\ SingleCommit(OnShellExit([SingleWorld EXCEPT !.shells[p].status = "gone"]))
  /\ UNCHANGED <<platform, now, nextId, sessions, objs, procs, calls, crashed,
                 limits, last>>

\* The next chunk on the stdout pipe of shell p is emitted.  An exception
\* escaping a listener ends the server, whose 'exit' handler kills the shell.
ShellDeliver(p) ==
  /\ ~crashed
  /\ p \in 1..Len(single.shells)
  /\ single.shells[p].out # <<>>
  /\ LET S1 == [SingleWorld EXCEPT !.shells[p].out = Tail(@)]
         S2 == EmitShellData(S1, single.shells[p].outL, Head(single.shells[p].out))
     IN /\ SingleCommit(IF S2.thrown THEN SingleOnProcessExit(S2) ELSE S2)
        /\ crashed' = S2.thrown
  /\ UNCHANGED <<platform, now, nextId, sessions, objs, procs, calls, limits, last>>

\* The timer of run r fires.
ShellTimeout(r) ==
  /\ ~crashed
  /\ r \in 1..Len(single.runs)
  /\ single.runs[r].timer = "armed"
  /\ SingleCommit(OnShellTimeout(SingleWorld, r))
  /\ UNCHANGED <<platform, now, nextId, sessions, objs, procs, calls, crashed,
                 limits, last>>

\* exec calls back for run r, without or with an error.
ExecDone(r, ok) ==
  /\ ~crashed
  /\ r \in 1..Len(single.runs)
  /\ single.runs[r].via = "exec"
  /\ ~single.runs[r].completed
  /\ SingleCommit(OnExecDone(SingleWorld, r, ok))
  /\ UNCHANGED <<platform, now, nextId, sessions, objs, procs, calls, crashed,
                 limits, last>>

\* The single-session server from its start: requests with every value of
\* use_persistent_shell, resets, unknown tools, shells that exit, output
\* that arrives and timers that fire.
InitSingle ==
  /\ Start
  /\ platform = "posix"
  /\ limits = [objs |-> 0, procs |-> SingleMaxShells, calls |-> SingleMaxRuns,
               inputs |-> [commands |-> SingleCommands, cwds |-> {<<>>},
                           envs |-> {NoEnv}]]

NextSingle ==
  \/ Tick
  \/ \E flag \in Flags : RequestExecuteCommand(flag)
  \/ RequestResetShell
  \/ \E name \in ToolNames : RequestUnknownTool(name)
  \/ \E name \in ToolNames : BasicRequestUnknownTool(name)
  \/ \E p \in 1..Len(single.shells) : ShellExit(p)
  \/ \E p \in 1..Len(single.shells) : ShellExitNotify(p)
  \/ \E p \in 1..Len(single.shells) : ShellDeliver(p)
  \/ \E r \in 1..Len(single.runs) : ShellTimeout(r)
  \/ \E r \in 1..Len(single.runs) : \E ok \in BOOLEAN : ExecDone(r, ok)

SpecSingle == InitSingle /\ [][NextSingle]_vars

----------------------------------------------------------------------------
\* Reading the state

Issued == 1..Len(calls)
Registered == Keys(sessions)
SessionOf(id) == objs[ObjOf(sessions, id)]
Resolved(c) == calls[c].outcomes # <<>>
ResolvedByMarker(c) == Resolved(c) /\ calls[c].outcomes[1].success
ResolvedByTimeout(c) == Resolved(c) /\ ~calls[c].outcomes[1].success

\* Every occurrence of the text `marker` taken out of `text`: the marker read
\* as plain text, which is what a cleaned buffer is compared with.
Literally(marker) == [k \in 1..Len(marker) |-> {marker[k]}]
Strip(text, marker) == ReplaceAll(text, Literally(marker))

----------------------------------------------------------------------------
\* C1: every executeCommand call is resolved at most once, so never by both
\* the marker path and the timer.
AlwaysResolvedAtMostOnce ==
  \A c \in Issued : Len(calls[c].outcomes) <= 1

\* A call whose marker arrived, in one chunk, after its timer had fired.
ReachMarkerAfterTimeout ==
  \E c \in Issued :
    /\ calls[c].timer = "fired"
    /\ Len(calls[c].outcomes) = 1
    /\ calls[c].seen > 0

\* C2: once the chunks delivered to a call contain its marker, and its timer
\* has not fired, the call is resolved successfully, however the stream was
\* cut into chunks.
SplitMarkerIsDetected ==
  \A c \in Issued :
    (Includes(calls[c].stdout, calls[c].marker) /\ calls[c].timer = "armed")
      => ResolvedByMarker(c)

\* C3: a call whose timer fires before its marker was observed is resolved
\* as a failure carrying what had been accumulated, and every call whose
\* output never contains its marker is resolved that way in the end.
TimeoutOutcomeIsPartialFailure ==
  \A c \in Issued :
    calls[c].timer = "fired" =>
      /\ Len(calls[c].outcomes) = 1
      /\ LET r == calls[c].outcomes[1]
         IN /\ ~r.success
            /\ r.exitCode = -1
            /\ r.stdout = r.raw
            /\ r.stderr = r.rawErr \o <<TimedOutNotice>>

\* The marker of call c is in what its shell has printed: in a chunk the
\* call was handed, in its buffer, or still on the pipe it listens to.
MarkerInOutput(c) ==
  \/ calls[c].seen > 0
  \/ Includes(calls[c].stdout, calls[c].marker)
  \/ \E p \in 1..Len(procs) :
       c \in procs[p].outL /\ Includes(procs[p].out, calls[c].marker)

TimeoutAlwaysResolves ==
  /\ []TimeoutOutcomeIsPartialFailure
  /\ \A c \in 1..TwoCallsMaxCalls :
       \/ [](c \notin Issued)
       \/ <>(c \in Issued /\ (ResolvedByTimeout(c) \/ MarkerInOutput(c)))

\* C4: a call resolved by its marker succeeds with exit code 0, its stdout is
\* everything it accumulated with every occurrence of the marker taken out
\* and trimmed, and its stderr likewise with the error marker.
MarkerOutcomeIsCleaned ==
  \A c \in Issued :
    ResolvedByMarker(c) =>
      LET r == calls[c].outcomes[1]
      IN /\ r.exitCode = 0
         /\ r.stdout = Trim(Strip(r.raw, calls[c].marker))
         /\ r.stderr = Trim(Strip(r.rawErr, calls[c].errorMarker))

----------------------------------------------------------------------------
\* C5: the step in which a call's timer fires leaves the registry, every
\* session and every process as they were, so the session of the call needs
\* no re-initialization that it did not need before.
TimeoutStep(c) == calls[c].timer = "armed" /\ calls'[c].timer = "fired"

TimeoutKeepsProcess ==
  [][\A c \in Issued :
       TimeoutStep(c) =>
         /\ sessions' = sessions
         /\ objs' = objs
         /\ procs' = procs
         /\ LET o == calls[c].sess
            IN NeedsInitialize([objs |-> objs', procs |-> procs'], o)
                 = NeedsInitialize([objs |-> objs, procs |-> procs], o)]_vars

\* A call has timed out and its session is still registered and active, with
\* the live process the call was written to.
ReachTimedOutSessionAlive ==
  \E c \in Issued :
    /\ ResolvedByTimeout(c)
    /\ LET o == calls[c].sess
       IN /\ o \in Objs(sessions)
          /\ ~NeedsInitialize(World, o)
          /\ procs[objs[o].process].status = "live"
          /\ c \in procs[objs[o].process].outL

----------------------------------------------------------------------------
\* C6: createSession with an id that is already registered throws and changes
\* nothing: not the map, not a session, not a process, not nextId.
DuplicateCreateChangesNothing ==
  [][\A optId \in UserIds \cup {NoId} :
       (CreateSession(World, Options(optId, <<>>, NoEnv), now).thrown
          /\ CallCreateSession(optId))
         => /\ sessions' = sessions
            /\ objs' = objs
            /\ procs' = procs
            /\ nextId' = nextId]_vars

----------------------------------------------------------------------------
\* C7: closeSession(id) returns true exactly when id was registered; then id
\* is no longer registered, getSession(id) throws, and the session's process
\* has been killed; otherwise it returns false and changes nothing.
CloseSessionContract ==
  \A id \in AllIds :
    LET H1 == CloseSession(World, id)
    IN IF Has(sessions, id)
       THEN LET o == ObjOf(sessions, id)
                p == objs[o].process
            IN /\ H1.ret = "true"
               /\ ~Has(H1.sessions, id)
               /\ GetSession(H1, id).thrown
               /\ H1.objs[o].process = 0
               /\ ~H1.objs[o].isActive
               /\ p # 0 => /\ H1.procs[p].status # "live"
                           /\ procs[p].status # "gone" => H1.procs[p].killed
       ELSE /\ H1.ret = "false"
            /\ H1.sessions = sessions
            /\ H1.objs = objs
            /\ H1.procs = procs
            /\ H1.calls = calls
            /\ H1.nextId = nextId

\* closeSession has just closed a session whose process it killed.
ReachClosedSession ==
  /\ last.op = "closeSession"
  /\ ~Has(sessions, last.arg)
  /\ \E p \in 1..Len(procs) :
       /\ objs[procs[p].owner].id = last.arg
       /\ objs[procs[p].owner].process = 0
       /\ procs[p].killed

----------------------------------------------------------------------------
\* C8: closeAllSessions, from any state, empties the registry and leaves no
\* session that was in it with a process handle: each is inactive, its
\* handle null and its process no longer live.
CloseAllSessionsContract ==
  LET H1 == CloseAllSessions(World)
  IN /\ H1.sessions = <<>>
     /\ \A o \in Objs(sessions) :
          /\ H1.objs[o].process = 0
          /\ ~H1.objs[o].isActive
          /\ objs[o].process # 0 => H1.procs[objs[o].process].status # "live"

\* closeAllSessions has just closed two sessions and killed both processes.
ReachAllClosed ==
  /\ last.op = "closeAllSessions"
  /\ sessions = <<>>
  /\ Len(procs) = 2
  /\ \A p \in 1..Len(procs) : procs[p].killed /\ objs[procs[p].owner].process = 0
  /\ procs[1].owner # procs[2].owner

----------------------------------------------------------------------------
\* The sessions a sweep takes out of the registry, and what is left of them.
Swept(H1) == Keys(sessions) \ Keys(H1.sessions)
Recent(session, maxAge) == (now - session.lastActivity) <= maxAge
Untouched(H1, o) ==
  /\ H1.objs[o] = objs[o]
  /\ objs[o].process # 0 => H1.procs[objs[o].process] = procs[objs[o].process]

\* C9: a sweep removes only sessions whose last activity is older than
\* maxAge: every session active within maxAge stays registered, untouched.
SweepKeepsRecent ==
  \A maxAge \in MaxAges :
    LET H1 == CleanupInactiveSessions(World, maxAge, now)
    IN \A id \in Registered :
         Recent(SessionOf(id), maxAge) =>
           Has(H1.sessions, id) /\ Untouched(H1, ObjOf(sessions, id))

\* C9, amended: every session that is Active and whose last activity is
\* within maxAge stays registered, untouched.
SweepKeepsRecentActive ==
  \A maxAge \in MaxAges :
    LET H1 == CleanupInactiveSessions(World, maxAge, now)
    IN \A id \in Registered :
         (SessionOf(id).isActive /\ Recent(SessionOf(id), maxAge)) =>
           Has(H1.sessions, id) /\ Untouched(H1, ObjOf(sessions, id))

\* A sweep has just removed a session and kept another one, which is active
\* on a live process.
ReachSweepKeptOne ==
  /\ last.op = "cleanupInactiveSessions"
  /\ \E o \in 1..Len(objs) : o \notin Objs(sessions)
  /\ \E id \in Registered :
       /\ SessionOf(id).isActive
       /\ SessionOf(id).process # 0
       /\ procs[SessionOf(id).process].status = "live"

\* C10: after a sweep every session left in the registry is Active with its
\* last activity within maxAge, and every session taken out has had its
\* process killed: its handle is null and the process is not live.
SweepContract ==
  \A maxAge \in MaxAges :
    LET H1 == CleanupInactiveSessions(World, maxAge, now)
    IN /\ \A id \in Keys(H1.sessions) :
            LET s1 == H1.objs[ObjOf(H1.sessions, id)]
            IN s1.isActive /\ Recent(s1, maxAge)
       /\ \A id \in Swept(H1) :
            LET o == ObjOf(sessions, id)
                p == objs[o].process
            IN /\ H1.objs[o].process = 0
               /\ ~H1.objs[o].isActive
               /\ p # 0 => /\ H1.procs[p].status # "live"
                           /\ procs[p].status # "gone" => H1.procs[p].killed

\* A sweep has just evicted an active session for its age and killed its
\* live process.
ReachSweptForAge ==
  /\ last.op = "cleanupInactiveSessions"
  /\ \E p \in 1..Len(procs) :
       /\ procs[p].killed
       /\ procs[p].status = "dying"
       /\ procs[p].owner \notin Objs(sessions)
       /\ objs[procs[p].owner].lastActivity < now

----------------------------------------------------------------------------
\* The calls of the session object o that have not been resolved.
Pending(o) == {c \in Issued : calls[c].sess = o /\ ~Resolved(c)}
Attached(c) == \E p \in 1..Len(procs) : c \in procs[p].outL \cup procs[p].errL

\* C18: once a call has resolved, by either path, its listeners are off the
\* process streams and its timer is no longer armed, so no chunk delivered
\* afterwards reaches its buffers.
ResolvedCallsAreInert ==
  [][\A c \in Issued :
       Resolved(c) =>
         /\ ~Attached(c)
         /\ calls[c].timer # "armed"
         /\ calls'[c].stdout = calls[c].stdout
         /\ calls'[c].stderr = calls[c].stderr]_vars

\* C19: a call that is unresolved when its session is killed is not left
\* dangling and its listeners throw no exception: whatever is delivered
\* afterwards, no exception ends the server, and a call that has taken its
\* decision (completed) has been resolved.
KilledCallsStillResolve ==
  /\ ~crashed
  /\ \A c \in Issued : calls[c].completed => Resolved(c)

\* C20: a sweep never removes a session that has an unresolved call and was
\* last used within maxAge, whatever has happened to its shell meanwhile.
SweepSparesPendingRecent ==
  \A maxAge \in MaxAges :
    LET H1 == CleanupInactiveSessions(World, maxAge, now)
    IN \A id \in Registered :
         (Pending(ObjOf(sessions, id)) # {} /\ Recent(SessionOf(id), maxAge))
           => Has(H1.sessions, id)

\* C20, amended: a sweep never removes a session that is Active, has an
\* unresolved call and was last used within maxAge.
SweepSparesPendingActive ==
  \A maxAge \in MaxAges :
    LET H1 == CleanupInactiveSessions(World, maxAge, now)
    IN \A id \in Registered :
         (/\ SessionOf(id).isActive
          /\ Pending(ObjOf(sessions, id)) # {}
          /\ Recent(SessionOf(id), maxAge))
           => /\ Has(H1.sessions, id)
              /\ H1.objs[ObjOf(sessions, id)] = SessionOf(id)

\* A sweep has just removed a session and spared one that is Active with a
\* call still pending on it.
ReachSweepSparedPending ==
  /\ last.op = "cleanupInactiveSessions"
  /\ \E o \in 1..Len(objs) : o \notin Objs(sessions)
  /\ \E id \in Registered :
       /\ SessionOf(id).isActive
       /\ Pending(ObjOf(sessions, id)) # {}

----------------------------------------------------------------------------
\* C12: executeCommand on a session that is Uninitialized or Inactive spawns
\* a new process in the session's recorded directory and environment and
\* writes the command to it: the session is then Active on a live process
\* spawned by this call, under the same id and registry entry.
ExecuteRespawns ==
  \A id \in Registered :
    \A command \in limits.inputs.commands :
      \A reply \in ShellReplies(platform, Marker(id, now), ErrorMarker(id, now)) :
        LET o  == ObjOf(sessions, id)
            H1 == ExecuteCommand(World, o, now, command, reply)
            p1 == H1.objs[o].process
        IN (~objs[o].isActive \/ objs[o].process = 0) =>
             /\ p1 = Len(procs) + 1
             /\ H1.objs[o].isActive
             /\ H1.procs[p1].status = "live"
             /\ ~H1.procs[p1].killed
             /\ H1.procs[p1].cwd = objs[o].workingDirectory
             /\ H1.procs[p1].env = objs[o].environment
             /\ H1.procs[p1].out = reply.out
             /\ Len(H1.calls) \in H1.procs[p1].outL
             /\ H1.sessions = sessions
             /\ H1.objs[o].id = id

\* A session whose shell had exited runs on a second shell, spawned in the
\* directory a cd command had recorded, with a call pending on it.
ReachRespawnedInDir ==
  \E id \in Registered :
    LET p == SessionOf(id).process
    IN /\ p >= 2
       /\ SessionOf(id).isActive
       /\ procs[p].status = "live"
       /\ procs[1].status = "gone"
       /\ procs[1].owner = procs[p].owner
       /\ procs[p].cwd # procs[1].cwd
       /\ procs[p].outL # {}

----------------------------------------------------------------------------
\* The inputs of the directory tracker: a cd command is built from the
\* blanks before it, its argument and the quotes around the argument.
CdArguments ==
  { <<"..">>, <<"~">>, <<"~", Sep, "x">>, <<"~", Sep>>, <<Sep, "abs", Sep, "path">>,
    <<Sep>>, <<"sub">>, <<"my dir">>, <<"..", Sep, "up">>, <<".">>, <<"\"">> }
CdInputs ==
  [lead : {<<>>, <<" ">>}, quote : {<<>>, <<"\"">>, <<"'">>}, arg : CdArguments]
CdText(in) == in.lead \o <<"cd", " ">> \o in.quote \o in.arg \o in.quote
OtherCommands ==
  { <<"ls">>, <<"cd">>, <<"echo", " ", "cd", " ", "x">>, <<"cdrom", " ", "x">>,
    <<"cd", " ", "x", "\n", "ls">> }

\* The names of a path, and the names left once "." and ".." are applied.
Names(path) == SelectSeq(Split(path), LAMBDA seg : seg # <<>>)
RECURSIVE Applied(_, _)
Applied(names, skip) ==
  IF names = <<>> THEN <<>>
  ELSE LET front == SubSeq(names, 1, Len(names) - 1)
           name  == names[Len(names)]
       IN IF name = <<".">> THEN Applied(front, skip)
          ELSE IF name = <<"..">> THEN Applied(front, skip + 1)
          ELSE IF skip > 0 THEN Applied(front, skip - 1)
          ELSE Append(Applied(front, 0), name)

\* The mapping of the directory tracker, case by case.
FollowsMapping(current, arg, result) ==
  IF IsAbsolute(arg) THEN result = arg
  ELSE IF arg = <<"..">>
  THEN /\ IsAbsolute(result)
       /\ Names(result) = SubSeq(Names(current), 1, Len(Names(current)) - 1)
  ELSE IF arg = <<"~">> THEN result = HomeDir
  ELSE IF Len(arg) >= 2 /\ arg[1] = "~" /\ arg[2] = Sep
  THEN /\ IsAbsolute(result)
       /\ Names(result) = Applied(Names(HomeDir) \o Names(Tail(arg)), 0)
  ELSE /\ IsAbsolute(result)
       /\ Names(result) = Applied(Names(current) \o Names(arg), 0)

\* C16: for every tracked path and command, updateWorkingDirectory gives
\* the path of the mapping: ".." the parent, "~" the home directory, "~/x"
\* home joined with x, an absolute argument itself, a relative argument the
\* tracked path resolved against it, a matching pair of quotes around the
\* argument taken off first; any other command leaves the path as it is.
TrackerFollowsMapping ==
  \A id \in Registered :
    LET current == SessionOf(id).workingDirectory
    IN /\ \A in \in CdInputs :
            FollowsMapping(current, in.arg,
                           UpdateWorkingDirectory(current, CdText(in)))
       /\ \A command \in OtherCommands :
            UpdateWorkingDirectory(current, command) = current

----------------------------------------------------------------------------
\* C17: listSessions returns one snapshot for each registered session, the
\* snapshot of that session, in the order the sessions were created.
ListedInCreationOrder ==
  LET list == ListSessions(World)
  IN /\ Len(list) = Cardinality(Registered)
     /\ \A id \in Registered :
          \E i \in 1..Len(list) :
            /\ list[i] = GetStatus(World, ObjOf(sessions, id))
            /\ \A j \in 1..Len(list) : list[j].id = id => j = i
     /\ \A i, j \in 1..Len(list) :
          i < j => ObjOf(sessions, list[i].id) < ObjOf(sessions, list[j].id)

\* An id was closed and created again while an older session stayed: the
\* registry lists the older session before the re-created one.
ReachRecreatedListedLast ==
  /\ Len(sessions) = 2
  /\ sessions[1].obj = 2
  /\ sessions[2].obj = 3
  /\ objs[1].id = objs[3].id

----------------------------------------------------------------------------
\* C11: every TerminalSession ever constructed, registered or evicted, has at
\* most one shell process that is live (spawned and neither killed nor
\* exited), and a session whose process handle is null is not active.
ShellsOf(o) == {p \in 1..Len(procs) : procs[p].owner = o}
LiveShellsOf(o) == {p \in ShellsOf(o) : procs[p].status = "live" /\ ~procs[p].killed}

OneLiveShellPerSession ==
  \A o \in 1..Len(objs) :
    /\ Cardinality(LiveShellsOf(o)) <= 1
    /\ LiveShellsOf(o) \subseteq {objs[o].process}
    /\ objs[o].process = 0 => ~objs[o].isActive

\* A session whose first shell has exited is active on its second one.
ReachReplacedShell ==
  \E o \in 1..Len(objs) :
    /\ Cardinality(ShellsOf(o)) = 2
    /\ objs[o].isActive
    /\ LiveShellsOf(o) = {objs[o].process}

----------------------------------------------------------------------------
\* Reading the state of the single-session server

Runs == 1..Len(single.runs)
LiveShells ==
  {p \in 1..Len(single.shells) :
     single.shells[p].status = "live" /\ ~single.shells[p].killed}

\* C14: a command sent with use_persistent_shell true or omitted runs in the
\* persistent shell, and one sent with use_persistent_shell false runs as a
\* one-shot exec in the tracked directory.
PersistentUnlessDisabled ==
  \A r \in Runs :
    /\ single.runs[r].flag \in {"true", "omitted"} => single.runs[r].via = "shell"
    /\ single.runs[r].flag = "false" => single.runs[r].via = "exec"

\* C15: when reset_shell returns there is exactly one live default shell, it
\* is not the shell held before the call, and the tracked directory and the
\* environment snapshot are the process defaults.
ResetShellRecreates ==
  LET S == ResetShell(SingleWorld)
      live == {p \in 1..Len(S.shells) :
                 S.shells[p].status = "live" /\ ~S.shells[p].killed}
  IN /\ live = {S.shellProcess}
     /\ S.shellProcess # single.shellProcess
     /\ S.currentWorkingDirectory = ProcessCwd
     /\ S.shellEnvironment = ProcessEnv

\* C13: no error raised while a request is handled leaves the handler other
\* than as a response with isError = true: no request is rejected, no
\* exception of a listener of a request in flight ends the server, and a run
\* whose listener took its decision has its answer.
ErrorsBecomeResponses ==
  /\ single.basicResponse # "rejected"
  /\ ~crashed
  /\ \A r \in Runs : single.runs[r].completed =>
                         RunResponse(single.runs[r]) # "pending"

----------------------------------------------------------------------------
\* C21: the exit notification of a shell that has been replaced (killed by a
\* reset or a re-initialization) leaves the handle of the default shell
\* alone: whenever the 'exit' listener of a shell other than the one the
\* handle names runs, shellProcess keeps its value, so the handle is never
\* null while the shell it named is alive and unkilled.
StaleShellExit(p) ==
  /\ p \in 1..Len(single.shells)
  /\ single.shells[p].status = "dying"
  /\ single'.shells[p].status = "gone"
  /\ p # single.shellProcess

StaleExitKeepsHandle ==
  [][\A p \in 1..SingleMaxShells :
       StaleShellExit(p) => single'.shellProcess = single.shellProcess]_vars

----------------------------------------------------------------------------
\* C22: sessions are isolated.  A step that is an operation or an event on
\* one session changes the fields and the calls of no other session, and
\* the buffers of a call change only when a chunk is read from a pipe of a
\* process of the call's own session.
Touched(o) ==
  \/ objs'[o] # objs[o]
  \/ \E c \in 1..Len(calls) : calls[c].sess = o /\ calls'[c] # calls[c]
  \/ \E c \in (Len(calls) + 1)..Len(calls') : calls'[c].sess = o

FedByOwnShell(c) ==
  \E p \in 1..Len(procs) :
    /\ procs[p].owner = calls[c].sess
    /\ <<procs'[p].out, procs'[p].err>> # <<procs[p].out, procs[p].err>>

SessionsAreIsolated ==
  [][/\ \A o1, o2 \in 1..Len(objs) :
          o1 # o2 => ~(Touched(o1) /\ Touched(o2))
     /\ \A c \in 1..Len(calls) :
          <<calls'[c].stdout, calls'[c].stderr>> # <<calls[c].stdout, calls[c].stderr>>
            => FedByOwnShell(c)]_vars

----------------------------------------------------------------------------
\* C23: the completion marker of a call is unique to it: any two distinct
\* calls, issued at the same reading of the clock or not, have different
\* markers.
MarkersAreUnique ==
  \A c1, c2 \in Issued : c1 # c2 => calls[c1].marker # calls[c2].marker

----------------------------------------------------------------------------
\* C24: createSession without an id allocates a fresh id: the call does not
\* throw, the id it returns is not in the registry before the call, and the
\* counter the ids are made from has grown.
AutoIdIsFresh ==
  LET H1 == CreateSession(World, Options(NoId, <<>>, NoEnv), now)
  IN /\ ~H1.thrown
     /\ H1.ret \notin Registered
     /\ H1.ret = AutoId(nextId)
     /\ H1.nextId > nextId

----------------------------------------------------------------------------
\* C25: on win32 a command that fails is detected as complete by what the
\* shell echoes after it: once the echo that follows the failed command has
\* been read from stdout, the call is resolved and does not wait for its
\* timeout.
FailureEchoRead(c) == Includes(calls[c].stdout, calls[c].errorMarker)

FailedCommandCompletes ==
  platform = "win32" =>
    \A c \in Issued : FailureEchoRead(c) => Resolved(c)

----------------------------------------------------------------------------
\* C26: output is not discarded.  Every chunk read from the stdout pipe of a
\* process, whichever command printed it, is appended to the buffer of each
\* unresolved call listening on the process, and is part of what the call
\* resolves with when the chunk completes it (in a step that does not end
\* the server).
ChunkRead(p) == SubSeq(procs[p].out, 1, Len(procs[p].out) - Len(procs'[p].out))

LateOutputIsKept ==
  [][\A p \in 1..Len(procs) : \A c \in 1..Len(calls) :
       (/\ Len(procs'[p].out) < Len(procs[p].out)
        /\ c \in procs[p].outL
        /\ ~calls[c].completed
        /\ ~crashed')
         => IF calls'[c].outcomes # <<>>
            THEN calls'[c].outcomes[1].raw = calls[c].stdout \o ChunkRead(p)
            ELSE calls'[c].stdout = calls[c].stdout \o ChunkRead(p)]_vars

\* The first call timed out before anything was read; the "x" its command
\* printed was read while the second call was pending, and the second call
\* resolved by its own marker with both its "x" and the late one as stdout.
ReachContaminatedResult ==
  \E c1, c2 \in Issued :
    /\ c1 < c2
    /\ calls[c1].sess = calls[c2].sess
    /\ calls[c1].marker # calls[c2].marker
    /\ ResolvedByTimeout(c1)
    /\ calls[c1].outcomes[1].stdout = <<>>
    /\ ResolvedByMarker(c2)
    /\ calls[c2].outcomes[1].stdout = <<"x", "x">>

----------------------------------------------------------------------------
\* C27: the tracked directory of a session changes through executeCommand
\* only.  Issuing executeCommand(command) leaves it at
\* updateWorkingDirectory(previous path, command), whether or not the call
\* respawns the shell and whatever the shell answers; every other step
\* (chunk, timeout, exit, exit notification) leaves it as it is.
IssuedOn(o) == \E c \in (Len(calls) + 1)..Len(calls') : calls'[c].sess = o

TrackerIsAdvisory ==
  /\ [](\A o \in 1..Len(objs) : \A command \in limits.inputs.commands :
         \A reply \in ShellReplies(platform, Marker(objs[o].id, now),
                                   ErrorMarker(objs[o].id, now)) :
           ExecuteCommand(World, o, now, command, reply).objs[o].workingDirectory
             = UpdateWorkingDirectory(objs[o].workingDirectory, command))
  /\ [][\A o \in 1..Len(objs) :
          ~IssuedOn(o) => objs'[o].workingDirectory = objs[o].workingDirectory]_vars

\* A session that was sent into "sub", whose command timed out and whose
\* shell exited and was respawned, is still tracked in "sub".
ReachTrackedAcrossRespawn ==
  \E o \in 1..Len(objs) :
    /\ objs[o].workingDirectory = ProcessCwd \o <<Sep, "sub">>
    /\ Cardinality(ShellsOf(o)) = 2
    /\ objs[o].isActive
    /\ \E c \in Issued : calls[c].sess = o /\ ResolvedByTimeout(c)

====
